---- MODULE Spec2Model ----
(***************************************************************************)
(* Model of the MetaTrader 5 stream adapter                                *)
(* (exchange/src/adapter/metatrader5.rs): the reconnect driver             *)
(* connect_market_stream, one connection attempt connect_and_stream, and   *)
(* the frame decoders parse_trade / parse_depth.                           *)
(***************************************************************************)
EXTENDS Integers, Sequences, FiniteSets, TLC

\* ---------------------------------------------------------------- bounds
MaxAttempts == 10        \* connection attempts of one invocation
MaxStreamAttempts == 2   \* attempts in which the server delivers data frames
MaxFrames == 2           \* non-terminal frames read per phase of an attempt
MaxTime == 2             \* largest time stamp carried by a depth frame
MaxBuffer == 2           \* trades held in trades_buffer
MaxWait == 2             \* seconds of waiting that are observed
MaxLagAttempts == 2      \* attempts observed while the consumer lags behind
MaxLagFrames == 1        \* frames read per phase while the consumer lags behind
ChannelBuffer == 2       \* buffer of the output channel (100 in the source)
MaxEntries == 2          \* entries in the data list of a response

VARIABLES config, pc, attempt, orderbook, trades_buffer, reconnect_delay,
          sleeps, events, last_event, sent, nframes, last_frame, result,
          ended, receiver_dropped, send_failed, waited,
          chan, taken, consumer, resume, depth_arc, heap,
          modal, call

vars == <<config, pc, attempt, orderbook, trades_buffer, reconnect_delay,
          sleeps, events, last_event, sent, nframes, last_frame, result,
          ended, receiver_dropped, send_failed, waited,
          chan, taken, consumer, resume, depth_arc, heap,
          modal, call>>

\* The state of the stream task and of its output channel.
streamvars == <<config, pc, attempt, orderbook, trades_buffer, reconnect_delay,
                sleeps, events, last_event, sent, nframes, last_frame, result,
                ended, receiver_dropped, send_failed, waited,
                chan, taken, consumer, resume, depth_arc, heap>>

Min(a, b) == IF a < b THEN a ELSE b

\* -------------------------------------------------------------- inputs
\* Mt5Config as far as the stream task reads it.
Configs == [auto_reconnect : BOOLEAN, timeout_secs : {1}]

\* TickerInfo as far as the stream task reads it (prices in integer units).
ticker_info == [min_ticksize |-> 5]

NoBody == [shape |-> "none"]

TradeBodies ==
    { [shape |-> "trade", time |-> 1, price |-> 101, volume |-> 2, side |-> "buy"],
      [shape |-> "trade", time |-> 2, price |-> 98, volume |-> 1, side |-> "sell"] }

DepthSides ==
    { [bids |-> << <<100, 1>> >>, asks |-> << <<105, 2>> >>],
      [bids |-> << <<100, 3>>, <<95, 1>> >>, asks |-> << >>] }

DepthBodies ==
    { [shape |-> "depth", time |-> t, bids |-> s.bids, asks |-> s.asks] :
        t \in 0..MaxTime, s \in DepthSides }

\* A text frame: whether it is well-formed JSON, its "type" field ("" when
\* the field is missing), its "success" field, its "error" field and the
\* remaining fields of the object.
TextFrame(wf, ty, su, er, body) ==
    [msg |-> "Text", wellformed |-> wf, type |-> ty, success |-> su,
     error |-> er, body |-> body]

AuthResponseFrames ==
    { TextFrame(TRUE, "auth_response", su, er, NoBody) :
        su \in {"true", "false", "absent"}, er \in {"absent", "bad signature"} }

MalformedFrames ==
    { TextFrame(FALSE, "", "absent", "absent", NoBody),
      TextFrame(TRUE, "", "absent", "absent", NoBody),
      TextFrame(TRUE, "trade", "malformed", "absent", NoBody) }

TradeFrames == { TextFrame(TRUE, "trade", "absent", "absent", b) : b \in TradeBodies }

DepthFrames == { TextFrame(TRUE, "depth", "absent", "absent", b) : b \in DepthBodies }

\* A recognised type whose body does not have the fields of its struct.
BadBodyFrames ==
    { TextFrame(TRUE, "trade", "absent", "absent", NoBody),
      TextFrame(TRUE, "depth", "absent", "absent",
                CHOOSE b \in TradeBodies : b.time = 1) }

OtherTextFrames ==
    { TextFrame(TRUE, "heartbeat", "absent", "absent", NoBody),
      TextFrame(TRUE, "error", "absent", "server busy", NoBody),
      TextFrame(TRUE, "status", "absent", "absent", NoBody) }

ControlFrames == { [msg |-> "Ping"], [msg |-> "Binary"], [msg |-> "Close"] }

\* What ws.next().await can yield besides a frame.
ReadError == [msg |-> "Err"]
StreamEnd == [msg |-> "None"]
NoFrame == [msg |-> "-"]

AuthPhaseFrames ==
    AuthResponseFrames \cup MalformedFrames \cup OtherTextFrames
        \cup ControlFrames \cup {ReadError, StreamEnd}

StreamPhaseFrames ==
    MalformedFrames \cup TradeFrames \cup DepthFrames \cup BadBodyFrames
        \cup OtherTextFrames \cup ControlFrames \cup {ReadError, StreamEnd}

\* ------------------------------------------------------------ decoders
\* serde_json::from_str::<ServerMessage>: needs a JSON object with a string
\* "type"; "success" and "error" are optional but must have the right type.
from_str_ServerMessage(f) ==
    IF f.wellformed /\ f.type # "" /\ f.success # "malformed"
    THEN [ok |-> TRUE, msg_type |-> f.type,
          success |-> IF f.success = "absent" THEN "None"
                      ELSE IF f.success = "true" THEN "Some(true)" ELSE "Some(false)",
          error |-> f.error]
    ELSE [ok |-> FALSE, msg_type |-> "", success |-> "None", error |-> "absent"]

\* Price::round_to_min_tick: the nearest multiple of the tick size.
round_to_min_tick(p, tick) == ((2 * p + tick) \div (2 * tick)) * tick

NoTrade == [time |-> 0, is_sell |-> FALSE, price |-> 0, qty |-> 0]

parse_trade_any_body(f, ti) ==
    IF f.wellformed
    THEN [ok |-> TRUE,
          trade |-> IF f.body.shape = "trade"
                    THEN [time |-> f.body.time,
                          is_sell |-> (f.body.side = "sell"),
                          price |-> round_to_min_tick(f.body.price, ti.min_ticksize),
                          qty |-> f.body.volume]
                    ELSE NoTrade]
    ELSE [ok |-> FALSE, trade |-> NoTrade]

parse_trade(f, ti) ==
    IF f.wellformed /\ f.body.shape = "trade"
    THEN [ok |-> TRUE,
          trade |-> [time |-> f.body.time,
                     is_sell |-> (f.body.side = "sell"),
                     price |-> round_to_min_tick(f.body.price, ti.min_ticksize),
                     qty |-> f.body.volume]]
    ELSE [ok |-> FALSE, trade |-> NoTrade]

NoPayload == [last_update_id |-> 0, time |-> 0, bids |-> << >>, asks |-> << >>]

parse_depth_next_id(f) ==
    IF f.wellformed /\ f.body.shape = "depth"
    THEN [ok |-> TRUE,
          payload |-> [last_update_id |-> f.body.time + 1, time |-> f.body.time,
                       bids |-> f.body.bids, asks |-> f.body.asks]]
    ELSE [ok |-> FALSE, payload |-> NoPayload]

parse_depth(f) ==
    IF f.wellformed /\ f.body.shape = "depth"
    THEN [ok |-> TRUE,
          payload |-> [last_update_id |-> f.body.time, time |-> f.body.time,
                       bids |-> f.body.bids, asks |-> f.body.asks]]
    ELSE [ok |-> FALSE, payload |-> NoPayload]

\* --------------------------------------------------------- depth cache
\* LocalDepthCache (crate::depth): the book plus the last applied update.
EmptyDepth == [bids |-> {}, asks |-> {}]

LocalDepthCache_default == [last_update_id |-> 0, time |-> 0, depth |-> EmptyDepth]

Levels(list) == { list[i] : i \in 1..Len(list) }

\* LocalDepthCache::update with DepthUpdate::Snapshot: both sides are
\* replaced, unless the update is not newer than the last applied one.
update(cache, payload) ==
    IF payload.last_update_id > cache.last_update_id
    THEN [last_update_id |-> payload.last_update_id,
          time |-> payload.time,
          depth |-> [bids |-> Levels(payload.bids), asks |-> Levels(payload.asks)]]
    ELSE cache

\* -------------------------------------------------------------- events
NoReason == [error |-> "-", text |-> "-"]

NoEvent ==
    [kind |-> "-", time |-> 0, depth |-> EmptyDepth, trades |-> << >>,
     reason |-> NoReason]

Connected == [NoEvent EXCEPT !.kind = "Connected"]

Disconnected(reason) == [NoEvent EXCEPT !.kind = "Disconnected", !.reason = reason]

DepthReceived(time, depth, trades) ==
    [NoEvent EXCEPT !.kind = "DepthReceived", !.time = time, !.depth = depth,
                    !.trades = trades]

\* AdapterError values and their rendering by to_string().
WebsocketError(text) == [variant |-> "WebsocketError", text |-> text]
ParseError(text) == [variant |-> "ParseError", text |-> text]

to_string(e) == [error |-> e.variant, text |-> e.text]

Ok == [ok |-> TRUE, err |-> [variant |-> "-", text |-> "-"]]
Err(e) == [ok |-> FALSE, err |-> e]
NoResult == [ok |-> FALSE, err |-> [variant |-> "pending", text |-> "-"]]

\* The reason carried by the Disconnected event of an attempt.
DisconnectReason_always_closed(res) == [error |-> "-", text |-> "Connection closed"]

DisconnectReason(res) ==
    IF res.ok THEN [error |-> "-", text |-> "Connection closed"]
    ELSE to_string(res.err)

\* Reconnect backoff: min(reconnect_delay * 2, 60 s).
NextDelay_uncapped(d) == d * 2

NextDelay(d) == Min(d * 2, 60)

\* std::mem::take(trades_buffer): the content moves out, the buffer is empty.
mem_take_keep(buf) == [taken |-> buf, left |-> buf]

mem_take(buf) == [taken |-> buf, left |-> << >>]

\* `if !config.auto_reconnect { break; }`
LoopBreaks_never(cfg) == FALSE

LoopBreaks(cfg) == ~cfg.auto_reconnect

NoEnd == [phase |-> "-", cause |-> "-"]

\* No configuration modal is open; no one-shot call is running.
NoModal == [open |-> FALSE]

NoCall == [pc |-> "-"]

\* The output channel of stream::channel(100, ..): a futures mpsc channel
\* holds its buffer plus one slot per sender, and the task is the one sender.
Capacity == ChannelBuffer + 1

\* The allocations that hold a book: the depth cache owns one Arc<Depth>
\* and every DepthReceived event owns one; there are never more of them
\* than the queue can hold, plus the event the consumer has in hand, plus
\* the cache's own.
Cells == 0..(Capacity + 1)

NoCell == -1

Free == [bids |-> {<<0, 0>>}, asks |-> {<<0, 0>>}]

\* What is kept of a queued event: its kind, the frame that triggered it
\* and, of a DepthReceived, the allocation its Arc points to and the book
\* that allocation held when the event was sent.
Tag(ev, a, n, cell) ==
    [kind |-> ev.kind, attempt |-> a, frame |-> n,
     cell |-> IF ev.kind = "DepthReceived" THEN cell ELSE NoCell,
     depth |-> ev.depth]

NoTag == Tag(NoEvent, 0, 0, NoCell)

\* The allocations that events in the queue or in the consumer's hand
\* point to.
Refs_none(q, t) == {}

Refs(q, t) == ({ q[i].cell : i \in 1..Len(q) } \cup {t.cell}) \ {NoCell}

\* An allocation is freed when the last Arc pointing to it is dropped.
Collect(h, live) == [c \in Cells |-> IF c \in live THEN h[c] ELSE Free]

\* Arc::make_mut followed by the write of the new book: in place when the
\* cache's Arc is the only one, into a new allocation when an event
\* shares it.
make_mut(h, cell, shared, d) ==
    IF cell \in shared
    THEN LET fresh == CHOOSE c \in Cells :
                          /\ c \notin shared \cup {cell}
                          /\ \A b \in Cells : b < c => b \in shared \cup {cell}
         IN [cell |-> fresh, heap |-> [h EXCEPT ![fresh] = d]]
    ELSE [cell |-> cell, heap |-> [h EXCEPT ![cell] = d]]

Enqueue_front(q, e) == <<e>> \o q

Enqueue(q, e) == Append(q, e)

\* ---------------------------------------------------------------- Init
\* The stream task right after connect_market_stream spawned it.
InitStream ==
    /\ config \in Configs
    /\ pc = "connect"
    /\ attempt = 1
    /\ orderbook = LocalDepthCache_default
    /\ trades_buffer = << >>
    /\ reconnect_delay = 1
    /\ sleeps = << >>
    /\ events = << >>
    /\ last_event = NoEvent
    /\ sent = << >>
    /\ nframes = 0
    /\ last_frame = NoFrame
    /\ result = NoResult
    /\ ended = NoEnd
    /\ receiver_dropped = FALSE
    /\ send_failed = FALSE
    /\ waited = 0
    /\ chan = << >>
    /\ taken = NoTag
    /\ resume = "-"
    /\ depth_arc = 0
    /\ heap = [c \in Cells |-> IF c = 0 THEN EmptyDepth ELSE Free]

\* Init: the stream task with a consumer that takes every event as soon as
\* it is sent; the modal and the one-shot calls are not in use.
Init ==
    /\ InitStream
    /\ consumer = "prompt"
    /\ modal = NoModal
    /\ call = NoCall

\* The same task with a consumer that takes events at its own pace.
InitChannel ==
    /\ InitStream
    /\ consumer = "lagging"
    /\ modal = NoModal
    /\ call = NoCall

\* output.send(ev).await with the result discarded (`let _ =`). The send
\* fails when the receiver is gone. Otherwise the event is queued, and when
\* that takes the queue beyond the buffer the sender is parked: the send
\* completes, and the task goes on at `next`, only once it is unparked.
Send_try(ev, next, frame) ==
    /\ events' = Append(events, ev.kind)
    /\ last_event' = ev
    /\ send_failed' = (send_failed \/ receiver_dropped)
    /\ pc' = next
    /\ resume' = resume
    /\ chan' = IF receiver_dropped \/ consumer = "prompt" \/ Len(chan) >= ChannelBuffer
               THEN chan
               ELSE Enqueue(chan, Tag(ev, attempt, frame, depth_arc'))

Send(ev, next, frame) ==
    /\ events' = Append(events, ev.kind)
    /\ last_event' = ev
    /\ send_failed' = (send_failed \/ receiver_dropped)
    /\ IF receiver_dropped \/ consumer = "prompt"
       THEN /\ pc' = next
            /\ UNCHANGED <<chan, resume>>
       ELSE /\ chan' = Enqueue(chan, Tag(ev, attempt, frame, depth_arc'))
            /\ IF Len(chan) < ChannelBuffer
               THEN /\ pc' = next
                    /\ UNCHANGED resume
               ELSE /\ pc' = "blocked"
                    /\ resume' = next

\* A parked send completes: the consumer took an event, which unparks the
\* sender, or it dropped the receiver, which the flush of an event that is
\* already queued does not report as a failure.
SendResumes ==
    /\ pc = "blocked"
    /\ receiver_dropped \/ Len(chan) <= ChannelBuffer
    /\ pc' = resume
    /\ resume' = "-"
    /\ UNCHANGED <<config, attempt, orderbook, depth_arc, heap, trades_buffer, reconnect_delay,
                   sleeps, events, last_event, sent, nframes, last_frame, result,
                   ended, receiver_dropped, send_failed, waited, chan, taken,
                   consumer, modal, call>>

\* The consumer polls the stream and takes the oldest queued event.
Consume ==
    /\ consumer = "lagging"
    /\ ~receiver_dropped
    /\ chan # << >>
    /\ taken' = Head(chan)
    /\ chan' = Tail(chan)
    /\ heap' = Collect(heap, {depth_arc} \cup Refs(chan', taken'))
    /\ UNCHANGED <<config, pc, attempt, orderbook, depth_arc, trades_buffer, reconnect_delay,
                   sleeps, events, last_event, sent, nframes, last_frame, result,
                   ended, receiver_dropped, send_failed, waited, consumer, resume,
                   modal, call>>

\* connect_and_stream returns res; phase and cause say where and why.
Return(res, phase, cause) ==
    /\ pc' = "returned"
    /\ result' = res
    /\ ended' = [phase |-> phase, cause |-> cause]

\* connect_async fails.
ConnectFail ==
    /\ pc = "connect"
    /\ Return(Err(WebsocketError("connect failed")), "Connecting", "connect_error")
    /\ waited' = 0
    /\ UNCHANGED <<config, attempt, orderbook, depth_arc, heap, trades_buffer, reconnect_delay,
                   sleeps, events, last_event, sent, nframes, last_frame,
                   receiver_dropped, send_failed, chan, taken, consumer, resume,
                   modal, call>>

ConnectOk_no_event ==
    /\ pc = "connect"
    /\ pc' = "connected"
    /\ waited' = 0
    /\ UNCHANGED <<config, attempt, orderbook, depth_arc, heap, trades_buffer, reconnect_delay,
                   sleeps, events, last_event, sent, nframes, last_frame, result,
                   ended, receiver_dropped, send_failed, chan, taken, consumer,
                   resume, modal, call>>

\* connect_async succeeds: the Connected event is sent.
ConnectOk ==
    /\ pc = "connect"
    /\ Send(Connected, "connected", nframes)
    /\ waited' = 0
    /\ UNCHANGED <<config, attempt, orderbook, depth_arc, heap, trades_buffer, reconnect_delay,
                   sleeps, sent, nframes, last_frame, result, ended,
                   receiver_dropped, taken, consumer, modal, call>>

\* After the Connected event the auth request is sent; a failed ws.send
\* ends the attempt.
SendAuth_streams_at_once(auth_sent) ==
    /\ pc = "connected"
    /\ IF auth_sent
       THEN /\ sent' = Append(sent, "auth")
            /\ pc' = "streaming"
            /\ UNCHANGED <<result, ended>>
       ELSE /\ Return(Err(WebsocketError("send failed")), "Authenticating", "send_error")
            /\ UNCHANGED sent
    /\ UNCHANGED <<config, attempt, orderbook, depth_arc, heap, trades_buffer, reconnect_delay,
                   sleeps, events, last_event, nframes, last_frame,
                   receiver_dropped, send_failed, waited, chan, taken, consumer,
                   resume, modal, call>>

SendAuth(auth_sent) ==
    /\ pc = "connected"
    /\ IF auth_sent
       THEN /\ sent' = Append(sent, "auth")
            /\ pc' = "auth_wait"
            /\ UNCHANGED <<result, ended>>
       ELSE /\ Return(Err(WebsocketError("send failed")), "Authenticating", "send_error")
            /\ UNCHANGED sent
    /\ UNCHANGED <<config, attempt, orderbook, depth_arc, heap, trades_buffer, reconnect_delay,
                   sleeps, events, last_event, nframes, last_frame,
                   receiver_dropped, send_failed, waited, chan, taken, consumer,
                   resume, modal, call>>

\* Frames are read up to a bound, a smaller one when the queue of the
\* output channel is observed as well.
FrameBound == IF consumer = "prompt" THEN MaxFrames ELSE MaxLagFrames

\* Frames that keep a read loop running are bounded; the ones that end the
\* attempt are always possible.
EndsAuthLoop(f) ==
    \/ f.msg \in {"Err", "None"}
    \/ /\ f.msg = "Text"
       /\ \/ ~from_str_ServerMessage(f).ok
          \/ from_str_ServerMessage(f).msg_type = "auth_response"

\* `server_msg.success == Some(true)`
AuthAccepted_unless_false(m) == m.success # "Some(false)"

AuthAccepted(m) == m.success = "Some(true)"

\* One iteration of the "wait for auth response" loop.
AuthRecv(f, sub_sent) ==
    /\ pc = "auth_wait"
    /\ EndsAuthLoop(f) \/ (nframes < FrameBound /\ attempt <= MaxStreamAttempts)
    /\ last_frame' = f
    /\ LET m == from_str_ServerMessage(f) IN
       CASE f.msg = "Err" ->
              /\ Return(Err(WebsocketError("read error")), "Authenticating", "read_error")
              /\ nframes' = nframes + 1
              /\ UNCHANGED sent
         [] f.msg = "None" ->
              /\ Return(Err(WebsocketError("No auth response received")),
                        "Authenticating", "stream_end")
              /\ nframes' = nframes + 1
              /\ UNCHANGED sent
         [] f.msg = "Text" /\ ~m.ok ->
              /\ Return(Err(ParseError("invalid message")), "Authenticating", "parse_error")
              /\ nframes' = nframes + 1
              /\ UNCHANGED sent
         [] f.msg = "Text" /\ m.ok /\ m.msg_type = "auth_response"
                /\ AuthAccepted(m) ->
              IF sub_sent
              THEN /\ sent' = Append(sent, "subscribe")
                   /\ pc' = "streaming"
                   /\ nframes' = 0
                   /\ UNCHANGED <<result, ended>>
              ELSE /\ Return(Err(WebsocketError("send failed")), "Subscribing", "send_error")
                   /\ nframes' = nframes + 1
                   /\ UNCHANGED sent
         [] f.msg = "Text" /\ m.ok /\ m.msg_type = "auth_response"
                /\ ~AuthAccepted(m) ->
              /\ Return(Err(WebsocketError(IF m.error = "absent" THEN "Auth failed"
                                           ELSE m.error)),
                        "Authenticating", "auth_rejected")
              /\ nframes' = nframes + 1
              /\ UNCHANGED sent
         [] OTHER ->
              /\ nframes' = nframes + 1
              /\ UNCHANGED <<pc, result, ended, sent>>
    /\ waited' = IF pc' = "auth_wait" THEN waited ELSE 0
    /\ UNCHANGED <<config, attempt, orderbook, depth_arc, heap, trades_buffer, reconnect_delay,
                   sleeps, events, last_event, receiver_dropped, send_failed,
                   chan, taken, consumer, resume, modal, call>>

EndsStreamLoop(f) == f.msg \in {"Err", "None", "Close"}

\* One iteration of the main message loop.
StreamRecv(f) ==
    /\ pc = "streaming"
    /\ EndsStreamLoop(f) \/ (nframes < FrameBound /\ attempt <= MaxStreamAttempts)
    /\ (f \in TradeFrames) => Len(trades_buffer) < MaxBuffer
    /\ last_frame' = f
    /\ nframes' = nframes + 1
    /\ LET m == from_str_ServerMessage(f)
           t == parse_trade(f, ticker_info)
           d == parse_depth(f)
       IN
       CASE f.msg = "Err" ->
              /\ Return(Err(WebsocketError("read error")), "Streaming", "read_error")
              /\ UNCHANGED <<orderbook, depth_arc, heap, trades_buffer, events, last_event, sent,
                             send_failed, chan, resume>>
         [] f.msg = "None" ->
              /\ Return(Ok, "Streaming", "stream_end")
              /\ UNCHANGED <<orderbook, depth_arc, heap, trades_buffer, events, last_event, sent,
                             send_failed, chan, resume>>
         [] f.msg = "Close" ->
              /\ Return(Ok, "Streaming", "close_frame")
              /\ UNCHANGED <<orderbook, depth_arc, heap, trades_buffer, events, last_event, sent,
                             send_failed, chan, resume>>
         [] f.msg = "Ping" ->
              /\ sent' = Append(sent, "Pong")
              /\ UNCHANGED <<pc, result, ended, orderbook, depth_arc, heap, trades_buffer, events,
                             last_event, send_failed, chan, resume>>
         [] f.msg = "Text" /\ m.ok /\ m.msg_type = "trade" /\ t.ok ->
              /\ trades_buffer' = Append(trades_buffer, t.trade)
              /\ UNCHANGED <<pc, result, ended, orderbook, depth_arc, heap, events, last_event,
                             sent, send_failed, chan, resume>>
         [] f.msg = "Text" /\ m.ok /\ m.msg_type = "depth" /\ d.ok ->
              /\ orderbook' = update(orderbook, d.payload)
              /\ LET w == IF orderbook'.depth = orderbook.depth
                          THEN [cell |-> depth_arc, heap |-> heap]
                          ELSE make_mut(heap, depth_arc, Refs(chan, taken),
                                        orderbook'.depth)
                 IN /\ depth_arc' = w.cell
                    /\ heap' = w.heap
              /\ trades_buffer' = mem_take(trades_buffer).left
              /\ Send(DepthReceived(orderbook'.time, orderbook'.depth,
                                    mem_take(trades_buffer).taken),
                      "streaming", nframes + 1)
              /\ UNCHANGED <<result, ended, sent>>
         [] f.msg = "Text" /\ m.ok /\ m.msg_type = "heartbeat" ->
              /\ sent' = Append(sent, "ping")
              /\ UNCHANGED <<pc, result, ended, orderbook, depth_arc, heap, trades_buffer, events,
                             last_event, send_failed, chan, resume>>
         [] OTHER ->
              UNCHANGED <<pc, result, ended, orderbook, depth_arc, heap, trades_buffer, events,
                          last_event, sent, send_failed, chan, resume>>
    /\ UNCHANGED <<config, attempt, reconnect_delay, sleeps, receiver_dropped,
                   waited, taken, consumer, modal, call>>

\* The match on the result of connect_and_stream: the Disconnected event is
\* sent, then the loop either breaks or starts the backoff sleep.
EmitDisconnected_gives_up_on_error ==
    /\ pc = "returned"
    /\ Send(Disconnected(DisconnectReason(result)),
            IF LoopBreaks(config) \/ result # Ok THEN "done" ELSE "sleeping", nframes)
    /\ UNCHANGED <<config, attempt, orderbook, depth_arc, heap, trades_buffer, reconnect_delay,
                   sleeps, sent, nframes, last_frame, result, ended,
                   receiver_dropped, waited, taken, consumer, modal, call>>

EmitDisconnected ==
    /\ pc = "returned"
    /\ Send(Disconnected(DisconnectReason(result)),
            IF LoopBreaks(config) THEN "done" ELSE "sleeping", nframes)
    /\ UNCHANGED <<config, attempt, orderbook, depth_arc, heap, trades_buffer, reconnect_delay,
                   sleeps, sent, nframes, last_frame, result, ended,
                   receiver_dropped, waited, taken, consumer, modal, call>>

\* Attempts are observed up to a bound, a smaller one when the queue of
\* the output channel is observed as well.
AttemptBound == IF consumer = "prompt" THEN MaxAttempts ELSE MaxLagAttempts

\* tokio::time::sleep(reconnect_delay) completes; the delay is doubled and
\* the next iteration calls connect_and_stream again.
WakeUp_reset_after_streaming ==
    /\ pc = "sleeping"
    /\ attempt < AttemptBound
    /\ sleeps' = Append(sleeps, reconnect_delay)
    /\ reconnect_delay' = IF ended.phase = "Streaming" THEN 1
                        ELSE NextDelay(reconnect_delay)
    /\ attempt' = attempt + 1
    /\ pc' = "connect"
    /\ events' = << >>
    /\ sent' = << >>
    /\ nframes' = 0
    /\ last_frame' = NoFrame
    /\ result' = NoResult
    /\ ended' = NoEnd
    /\ waited' = 0
    /\ UNCHANGED <<config, orderbook, depth_arc, heap, trades_buffer, last_event,
                   receiver_dropped, send_failed, chan, taken, consumer, resume,
                   modal, call>>

WakeUp_clears_trades ==
    /\ pc = "sleeping"
    /\ attempt < AttemptBound
    /\ sleeps' = Append(sleeps, reconnect_delay)
    /\ reconnect_delay' = NextDelay(reconnect_delay)
    /\ attempt' = attempt + 1
    /\ pc' = "connect"
    /\ events' = << >>
    /\ sent' = << >>
    /\ nframes' = 0
    /\ last_frame' = NoFrame
    /\ result' = NoResult
    /\ ended' = NoEnd
    /\ waited' = 0
    /\ trades_buffer' = << >>
    /\ UNCHANGED <<config, orderbook, depth_arc, heap, last_event,
                   receiver_dropped, send_failed, chan, taken, consumer, resume,
                   modal, call>>

WakeUp ==
    /\ pc = "sleeping"
    /\ attempt < AttemptBound
    /\ sleeps' = Append(sleeps, reconnect_delay)
    /\ reconnect_delay' = NextDelay(reconnect_delay)
    /\ attempt' = attempt + 1
    /\ pc' = "connect"
    /\ events' = << >>
    /\ sent' = << >>
    /\ nframes' = 0
    /\ last_frame' = NoFrame
    /\ result' = NoResult
    /\ ended' = NoEnd
    /\ waited' = 0
    /\ UNCHANGED <<config, orderbook, depth_arc, heap, trades_buffer, last_event,
                   receiver_dropped, send_failed, chan, taken, consumer, resume,
                   modal, call>>

\* The consumer drops the receiving end of the output channel; what is
\* queued is dropped with it.
DropReceiver ==
    /\ ~receiver_dropped
    /\ pc # "done"
    /\ receiver_dropped' = TRUE
    /\ chan' = << >>
    /\ heap' = Collect(heap, {depth_arc} \cup Refs(chan', taken))
    /\ UNCHANGED <<config, pc, attempt, orderbook, depth_arc, trades_buffer, reconnect_delay,
                   sleeps, events, last_event, sent, nframes, last_frame, result,
                   ended, send_failed, waited, taken, consumer, resume, modal,
                   call>>

\* A second passes while the task awaits connect_async or the next frame of
\* the auth loop; neither await is wrapped in a timeout. `waited` is the
\* time spent so far in Connecting or Authenticating, 0 outside them.
Tick ==
    /\ pc \in {"connect", "auth_wait"}
    /\ waited < MaxWait
    /\ waited' = waited + 1
    /\ UNCHANGED <<config, pc, attempt, orderbook, depth_arc, heap, trades_buffer, reconnect_delay,
                   sleeps, events, last_event, sent, nframes, last_frame, result,
                   ended, receiver_dropped, send_failed, chan, taken, consumer,
                   resume, modal, call>>

Next ==
    \/ ConnectFail
    \/ ConnectOk
    \/ \E auth_sent \in BOOLEAN : SendAuth(auth_sent)
    \/ \E f \in AuthPhaseFrames, sub_sent \in BOOLEAN : AuthRecv(f, sub_sent)
    \/ \E f \in StreamPhaseFrames : StreamRecv(f)
    \/ EmitDisconnected
    \/ WakeUp
    \/ DropReceiver
    \/ Tick

Spec == Init /\ [][Next]_vars

\* The stream task together with a consumer that stays attached and lags
\* behind.
NextChannel ==
    \/ ConnectFail
    \/ ConnectOk
    \/ \E auth_sent \in BOOLEAN : SendAuth(auth_sent)
    \/ \E f \in AuthPhaseFrames, sub_sent \in BOOLEAN : AuthRecv(f, sub_sent)
    \/ \E f \in StreamPhaseFrames : StreamRecv(f)
    \/ EmitDisconnected
    \/ WakeUp
    \/ SendResumes
    \/ Consume

SpecChannel == InitChannel /\ [][NextChannel]_vars

\* The same with the progress the runtime gives: the executor polls the
\* task whenever it can run, the timer of the backoff sleep fires, and the
\* attached consumer keeps polling the stream.
\* The frames of a server that has one depth snapshot to publish.
RetryPhaseFrames ==
    (StreamPhaseFrames \ (TradeFrames \cup DepthFrames))
        \cup { f \in DepthFrames : f.body.time = 1 /\ f.body.asks = << >> }

NextChannelLive ==
    \/ ConnectFail
    \/ ConnectOk
    \/ \E auth_sent \in BOOLEAN : SendAuth(auth_sent)
    \/ \E f \in AuthPhaseFrames, sub_sent \in BOOLEAN : AuthRecv(f, sub_sent)
    \/ \E f \in RetryPhaseFrames : StreamRecv(f)
    \/ EmitDisconnected
    \/ WakeUp
    \/ SendResumes
    \/ Consume

SpecChannelLive ==
    /\ InitChannel
    /\ [][NextChannelLive]_vars
    /\ WF_vars(EmitDisconnected)
    /\ WF_vars(SendResumes)
    /\ WF_vars(WakeUp)
    /\ WF_vars(Consume)

\* ------------------------------------------- the configuration modal
\* The strings a user types into the fields of the modal.
Addrs == {"", "localhost:9876", "192.168.1.100:9876"}

Keys == {"", "test_key"}

Secrets == {"", "test_secret"}

\* impl Default for Mt5Config
Mt5Config_default ==
    [server_addr |-> "localhost:9876", api_key |-> "", api_secret |-> "",
     use_tls |-> FALSE, timeout_secs |-> 30, auto_reconnect |-> TRUE]

\* Mt5Config::validate: the first empty field among address, key, secret.
validate_secret_first(cfg) ==
    IF cfg.api_secret = "" THEN [ok |-> FALSE, err |-> "API secret is required"]
    ELSE IF cfg.api_key = "" THEN [ok |-> FALSE, err |-> "API key is required"]
    ELSE IF cfg.server_addr = "" THEN [ok |-> FALSE, err |-> "Server address is required"]
    ELSE [ok |-> TRUE, err |-> ""]

validate(cfg) ==
    IF cfg.server_addr = "" THEN [ok |-> FALSE, err |-> "Server address is required"]
    ELSE IF cfg.api_key = "" THEN [ok |-> FALSE, err |-> "API key is required"]
    ELSE IF cfg.api_secret = "" THEN [ok |-> FALSE, err |-> "API secret is required"]
    ELSE [ok |-> TRUE, err |-> ""]

\* The derived Serialize of Mt5Config: every field under its own name,
\* except api_secret (skip_serializing).
serialize_with_secret(cfg) ==
    [server_addr |-> cfg.server_addr, api_key |-> cfg.api_key,
     api_secret |-> cfg.api_secret, use_tls |-> cfg.use_tls,
     timeout_secs |-> cfg.timeout_secs, auto_reconnect |-> cfg.auto_reconnect]

serialize(cfg) ==
    [server_addr |-> cfg.server_addr, api_key |-> cfg.api_key,
     use_tls |-> cfg.use_tls, timeout_secs |-> cfg.timeout_secs,
     auto_reconnect |-> cfg.auto_reconnect]

\* The fields of the persisted Mt5Connection record.
Mt5Connection_fields ==
    {"name", "server_addr", "api_key", "use_tls", "auto_reconnect"}

\* TestStatus and Action values.
TestStatus(kind, text) == [kind |-> kind, text |-> text]

Idle == TestStatus("Idle", "")

NoConfig == [none |-> TRUE]

Action(kind, cfg) == [kind |-> kind, config |-> cfg]

NoSerialized == [none |-> TRUE]

\* What a finished connection test reports to the modal.
TestResults == { <<TRUE, "Connected">>, <<FALSE, "Connection timeout">> }

TestMessages ==
    { r[2] : r \in TestResults }
        \cup { "Server address is required", "API key is required",
               "API secret is required" }

\* Mt5Config::ws_url: format!("{}://{}/client", protocol, server_addr).
ws_url_always_ws(cfg) == "ws" \o "://" \o cfg.server_addr \o "/client"

ws_url(cfg) ==
    (IF cfg.use_tls THEN "wss" ELSE "ws") \o "://" \o cfg.server_addr \o "/client"

\* Mt5Config::test_connection: validate first, then connect to ws_url()
\* and authenticate; what it reports, and the URL it connected to ("" when
\* validation failed before any connection).
test_connection(cfg) ==
    IF ~validate(cfg).ok
    THEN { [success |-> FALSE, msg |-> validate(cfg).err, url |-> ""] }
    ELSE { [success |-> r[1], msg |-> r[2], url |-> ws_url(cfg)] : r \in TestResults }

NoTest == [none |-> TRUE]

\* Mt5ConfigModal::new(), before any message; `message` is the last
\* message handled, `action` what update returned for it, `serialized`
\* the last saved configuration that was serialized and its serialized
\* form, `pending` the configuration of the connection test that is
\* running, `tested` the configuration and URL of the test whose result
\* the status shows.
Mt5ConfigModal_new ==
    [open |-> TRUE, config |-> Mt5Config_default, test_status |-> Idle,
     is_new |-> TRUE, message |-> "-", action |-> Action("None", NoConfig),
     serialized |-> NoSerialized, pending |-> NoConfig, tested |-> NoTest]

\* The stream task is not running.
IdleStream ==
    /\ config = [auto_reconnect |-> FALSE, timeout_secs |-> 1]
    /\ pc = "idle"
    /\ attempt = 1
    /\ orderbook = LocalDepthCache_default
    /\ trades_buffer = << >>
    /\ reconnect_delay = 1
    /\ sleeps = << >>
    /\ events = << >>
    /\ last_event = NoEvent
    /\ sent = << >>
    /\ nframes = 0
    /\ last_frame = NoFrame
    /\ result = NoResult
    /\ ended = NoEnd
    /\ receiver_dropped = FALSE
    /\ send_failed = FALSE
    /\ waited = 0
    /\ chan = << >>
    /\ taken = NoTag
    /\ resume = "-"
    /\ depth_arc = 0
    /\ heap = [c \in Cells |-> IF c = 0 THEN EmptyDepth ELSE Free]
    /\ consumer = "prompt"

InitModal ==
    /\ IdleStream
    /\ modal = Mt5ConfigModal_new
    /\ call = NoCall

\* Mt5ConfigModal::update, one action per message.
Edit(field, value, msg) ==
    /\ modal' = [modal EXCEPT !.config[field] = value, !.test_status = Idle,
                              !.message = msg, !.action = Action("None", NoConfig),
                              !.tested = NoTest]
    /\ UNCHANGED <<streamvars, call>>

ServerAddressChanged(addr) == Edit("server_addr", addr, "ServerAddressChanged")

ApiKeyChanged(key) == Edit("api_key", key, "ApiKeyChanged")

ApiSecretChanged(secret) == Edit("api_secret", secret, "ApiSecretChanged")

UseTlsChanged(use_tls) == Edit("use_tls", use_tls, "UseTlsChanged")

AutoReconnectChanged(auto_reconnect) ==
    /\ modal' = [modal EXCEPT !.config.auto_reconnect = auto_reconnect,
                              !.message = "AutoReconnectChanged",
                              !.action = Action("None", NoConfig)]
    /\ UNCHANGED <<streamvars, call>>

TestConnection ==
    /\ modal' = [modal EXCEPT !.test_status = TestStatus("Testing", ""),
                              !.message = "TestConnection",
                              !.action = Action("TestConnection", modal.config),
                              !.pending = modal.config,
                              !.tested = NoTest]
    /\ UNCHANGED <<streamvars, call>>

ConnectionTestResult(success, msg) ==
    /\ modal.pending # NoConfig
    /\ \E t \in test_connection(modal.pending) :
          /\ t.success = success
          /\ t.msg = msg
          /\ modal' = [modal EXCEPT !.test_status = IF success
                                                    THEN TestStatus("Success", msg)
                                                    ELSE TestStatus("Failed", msg),
                                    !.message = "ConnectionTestResult",
                                    !.action = Action("None", NoConfig),
                                    !.pending = NoConfig,
                                    !.tested = [config |-> modal.pending,
                                                url |-> t.url]]
    /\ UNCHANGED <<streamvars, call>>

Save_unchecked ==
    /\ modal' = [modal EXCEPT !.message = "Save",
                              !.action = Action("SaveConfig", modal.config)]
    /\ UNCHANGED <<streamvars, call>>

Save ==
    /\ modal' = IF validate(modal.config).ok
                THEN [modal EXCEPT !.message = "Save",
                                   !.action = Action("SaveConfig", modal.config)]
                ELSE [modal EXCEPT !.message = "Save",
                                   !.test_status =
                                       TestStatus("Failed", validate(modal.config).err),
                                   !.action = Action("None", NoConfig),
                                   !.tested = NoTest]
    /\ UNCHANGED <<streamvars, call>>

Cancel ==
    /\ modal' = [modal EXCEPT !.message = "Cancel", !.action = Action("Exit", NoConfig)]
    /\ UNCHANGED <<streamvars, call>>

\* The configuration that Save handed out is serialized.
Serialize ==
    /\ modal.action.kind = "SaveConfig"
    /\ modal' = [modal EXCEPT !.serialized =
                                  [input |-> modal.action.config,
                                   output |-> serialize(modal.action.config)]]
    /\ UNCHANGED <<streamvars, call>>

NextModal ==
    \/ \E addr \in Addrs : ServerAddressChanged(addr)
    \/ \E key \in Keys : ApiKeyChanged(key)
    \/ \E secret \in Secrets : ApiSecretChanged(secret)
    \/ \E use_tls \in BOOLEAN : UseTlsChanged(use_tls)
    \/ \E auto_reconnect \in BOOLEAN : AutoReconnectChanged(auto_reconnect)
    \/ TestConnection
    \/ \E success \in BOOLEAN, msg \in TestMessages :
          ConnectionTestResult(success, msg)
    \/ Save
    \/ Cancel
    \/ Serialize

SpecModal == InitModal /\ [][NextModal]_vars

\* ------------------------------------------------- the one-shot calls
\* fetch_ticksize and fetch_klines: connect, authenticate, one request,
\* one response, close.
CallFns == {"fetch_ticksize", "fetch_klines"}

DataRequest(fn) == IF fn = "fetch_ticksize" THEN "get_symbols" ELSE "get_klines"

\* Entries of a symbol list and of a kline list; a partial entry lacks
\* fields of its struct.
SymbolEntries ==
    { [shape |-> "symbol", symbol |-> "EURUSD", tick_size |-> 1, min_lot |-> 1,
       contract_size |-> 100, digits |-> 5],
      [shape |-> "symbol", symbol |-> "XAUUSD", tick_size |-> 5, min_lot |-> 2,
       contract_size |-> 10, digits |-> 2],
      [shape |-> "partial", symbol |-> "GBPUSD"] }

KlineEntries ==
    { [shape |-> "kline", time |-> 1, open |-> 100, high |-> 111, low |-> 94,
       close |-> 103, volume |-> 10],
      [shape |-> "kline", time |-> 2, open |-> 103, high |-> 103, low |-> 98,
       close |-> 99, volume |-> 3],
      [shape |-> "kline", time |-> 3, open |-> 99, high |-> 104, low |-> 99,
       close |-> 101, volume |-> 16777217],
      [shape |-> "partial", time |-> 4] }

Lists(E) == UNION { [1..n -> E] : n \in 0..MaxEntries }

ListBody(l) == [shape |-> "list", data |-> l]

\* What the server can answer to the data request.
DataFrames ==
    { TextFrame(TRUE, "symbols", "absent", "absent", ListBody(l)) : l \in Lists(SymbolEntries) }
        \cup { TextFrame(TRUE, "klines", "absent", "absent", ListBody(l)) :
                  l \in Lists(KlineEntries) \ {<< >>} }
        \cup { TextFrame(TRUE, "symbols", "absent", "absent", NoBody),
               TextFrame(TRUE, "error", "absent", "server busy", NoBody),
               TextFrame(FALSE, "", "absent", "absent", NoBody) }
        \cup ControlFrames \cup {ReadError, StreamEnd}

\* serde_json::from_str::<SymbolsResponse> and ::<KlinesResponse>: a JSON
\* object with a "data" array all of whose entries have every field of
\* the entry struct.
from_str_Response(f, shape) ==
    IF /\ f.wellformed
       /\ f.body.shape = "list"
       /\ \A i \in 1..Len(f.body.data) : f.body.data[i].shape = shape
    THEN [ok |-> TRUE, data |-> f.body.data]
    ELSE [ok |-> FALSE, data |-> << >>]

\* The `for sym_info in resp.data` loop: a map from ticker to TickerInfo,
\* a later entry of the same symbol replacing an earlier one.
TickerInfo(e) ==
    [ticker |-> e.symbol, min_ticksize |-> e.tick_size, min_qty |-> e.min_lot,
     contract_size |-> e.contract_size]

TickerMap(data) ==
    [sym \in { data[i].symbol : i \in 1..Len(data) } |->
        LET last == CHOOSE i \in 1..Len(data) :
                        /\ data[i].symbol = sym
                        /\ \A j \in 1..Len(data) : data[j].symbol = sym => j <= i
        IN TickerInfo(data[last])]

\* `as f32` of a non-negative number given in halves: the nearest number
\* with 24 significant bits, ties to even.
RECURSIVE Ulp(_, _)
Ulp(q, m) == IF q < 16777216 * m THEN m ELSE Ulp(q, 2 * m)

as_f32(q) ==
    LET m == Ulp(q, 1)
        lo == (q \div m) * m
        r == q - lo
    IN IF 2 * r < m THEN lo
       ELSE IF 2 * r > m THEN lo + m
       ELSE IF (q \div m) % 2 = 0 THEN lo ELSE lo + m

\* The `for k in resp.data` loop: one Kline per entry, in order, with
\* buy and sell volume each (k.volume / 2.0) as f32, kept in halves
\* (half of k.volume units is k.volume halves).
Kline_all_buy(k) ==
    [time |-> k.time,
     open |-> round_to_min_tick(k.open, ticker_info.min_ticksize),
     high |-> round_to_min_tick(k.high, ticker_info.min_ticksize),
     low |-> round_to_min_tick(k.low, ticker_info.min_ticksize),
     close |-> round_to_min_tick(k.close, ticker_info.min_ticksize),
     volume |-> <<as_f32(2 * k.volume), 0>>]

Kline(k) ==
    [time |-> k.time,
     open |-> round_to_min_tick(k.open, ticker_info.min_ticksize),
     high |-> round_to_min_tick(k.high, ticker_info.min_ticksize),
     low |-> round_to_min_tick(k.low, ticker_info.min_ticksize),
     close |-> round_to_min_tick(k.close, ticker_info.min_ticksize),
     volume |-> <<as_f32(k.volume), as_f32(k.volume)>>]

Klines(data) == [i \in 1..Len(data) |-> Kline(data[i])]

\* What the call has collected when it reads the response: the entries of
\* a text frame that parses, nothing otherwise.
Collected(fn, f) ==
    IF fn = "fetch_ticksize"
    THEN IF f.msg = "Text" /\ from_str_Response(f, "symbol").ok
         THEN TickerMap(from_str_Response(f, "symbol").data)
         ELSE << >>
    ELSE IF f.msg = "Text" /\ from_str_Response(f, "kline").ok
         THEN Klines(from_str_Response(f, "kline").data)
         ELSE << >>

NoValue == << >>

CallOk(v) == [ok |-> TRUE, err |-> [variant |-> "-", text |-> "-"], value |-> v]

CallErr(e) == [ok |-> FALSE, err |-> e, value |-> NoValue]

\* SystemTime::now() in epoch milliseconds, at the time of the call.
Timestamps == {0, 1704355200}

\* The digest of HMAC-SHA256 is not computed: it is 32 bytes that depend
\* on key and message only, here on their lengths.
hmac_sha256(key, message) ==
    [i \in 1..32 |-> (Len(key) * 17 + Len(message) * 29 + i * i * 7 + i * 3) % 256]

HexDigits ==
    <<"0", "1", "2", "3", "4", "5", "6", "7", "8", "9", "a", "b", "c", "d", "e", "f">>

\* hex::encode: two lowercase hex digits per byte, high nibble first.
hex_encode_unpadded(bytes) ==
    LET RECURSIVE enc(_)
        enc(i) == IF i > Len(bytes) THEN << >>
                  ELSE (IF bytes[i] < 16 THEN << >>
                        ELSE <<HexDigits[(bytes[i] \div 16) + 1]>>)
                       \o <<HexDigits[(bytes[i] % 16) + 1]>> \o enc(i + 1)
    IN enc(1)

hex_encode(bytes) ==
    [j \in 1..(2 * Len(bytes)) |->
        LET b == bytes[(j + 1) \div 2] IN
        IF j % 2 = 1 THEN HexDigits[(b \div 16) + 1] ELSE HexDigits[(b % 16) + 1]]

\* compute_hmac_signature: the hex encoding of the HMAC-SHA256, keyed with
\* the secret, of format!("{}{}", api_key, timestamp).
compute_hmac_signature(api_key, timestamp, secret) ==
    hex_encode(hmac_sha256(secret, api_key \o ToString(timestamp)))

\* The auth request: {"type": "auth", api_key, timestamp, signature}.
AuthMessage(api_key, timestamp, secret) ==
    [type |-> "auth", api_key |-> api_key, timestamp |-> timestamp,
     signature |-> compute_hmac_signature(api_key, timestamp, secret)]

NoMessage == [type |-> "-"]

CallStart(fn, api_key, api_secret) ==
    [fn |-> fn, api_key |-> api_key, api_secret |-> api_secret,
     pc |-> "connect", sent |-> << >>, auth_msg |-> NoMessage,
     auth_reply |-> NoFrame,
     data_reply |-> NoFrame, collected |-> NoValue, closed |-> FALSE,
     result |-> CallErr([variant |-> "pending", text |-> "-"])]

InitCall ==
    /\ IdleStream
    /\ modal = NoModal
    /\ call \in { CallStart(fn, k, s) : fn \in CallFns, k \in Keys, s \in Secrets }

CallReturn(res) == [call EXCEPT !.pc = "returned", !.result = res]

\* connect_async(&url).await with map_err and `?`.
CallConnect(ok) ==
    /\ call.pc = "connect"
    /\ call' = IF ok THEN [call EXCEPT !.pc = "send_auth"]
               ELSE CallReturn(CallErr(WebsocketError("connect failed")))
    /\ UNCHANGED <<streamvars, modal>>

\* The auth message is signed with the current time and sent.
CallSendAuth(ok, timestamp) ==
    /\ call.pc = "send_auth"
    /\ LET c == [call EXCEPT !.auth_msg =
                     AuthMessage(call.api_key, timestamp, call.api_secret)]
       IN call' = IF ok
                  THEN [c EXCEPT !.pc = "auth_reply", !.sent = Append(@, "auth")]
                  ELSE [c EXCEPT !.pc = "returned",
                                 !.result = CallErr(WebsocketError("send failed"))]
    /\ UNCHANGED <<streamvars, modal>>

\* `if let Some(Ok(Message::Text(text))) = ws.next().await { .. }`: only a
\* text frame is looked at, and only an auth_response whose success is
\* not true ends the call.
CallAuthReply(f) ==
    /\ call.pc = "auth_reply"
    /\ LET m == from_str_ServerMessage(f)
           c == [call EXCEPT !.auth_reply = f]
       IN call' =
            IF f.msg # "Text" THEN [c EXCEPT !.pc = "send_request"]
            ELSE IF ~m.ok
            THEN [c EXCEPT !.pc = "returned",
                           !.result = CallErr(ParseError("invalid message"))]
            ELSE IF m.msg_type = "auth_response" /\ ~AuthAccepted(m)
            THEN [c EXCEPT !.pc = "returned",
                           !.result = CallErr(WebsocketError(
                               IF m.error = "absent" THEN "Auth failed" ELSE m.error))]
            ELSE [c EXCEPT !.pc = "send_request"]
    /\ UNCHANGED <<streamvars, modal>>

\* ws.send of the get_symbols / get_klines request.
CallSendRequest(ok) ==
    /\ call.pc = "send_request"
    /\ call' = IF ok THEN [call EXCEPT !.pc = "data_reply",
                                       !.sent = Append(@, DataRequest(call.fn))]
               ELSE CallReturn(CallErr(WebsocketError("send failed")))
    /\ UNCHANGED <<streamvars, modal>>

\* The second ws.next().await and the two nested `if let`.
CallDataReply(f) ==
    /\ call.pc = "data_reply"
    /\ call' = [call EXCEPT !.pc = "close", !.data_reply = f,
                            !.collected = Collected(call.fn, f)]
    /\ UNCHANGED <<streamvars, modal>>

\* ws.close(None).await.ok(), then Ok(result).
CallClose(ok) ==
    /\ call.pc = "close"
    /\ call' = [call EXCEPT !.pc = "returned", !.closed = ok,
                            !.result = CallOk(call.collected)]
    /\ UNCHANGED <<streamvars, modal>>

NextCall ==
    \/ \E ok \in BOOLEAN : CallConnect(ok)
    \/ \E ok \in BOOLEAN, timestamp \in Timestamps : CallSendAuth(ok, timestamp)
    \/ \E f \in AuthPhaseFrames : CallAuthReply(f)
    \/ \E ok \in BOOLEAN : CallSendRequest(ok)
    \/ \E f \in DataFrames : CallDataReply(f)
    \/ \E ok \in BOOLEAN : CallClose(ok)

SpecCall == InitCall /\ [][NextCall]_vars

\* ============================================================== claims
\* A step of the main message loop / of the auth loop that reads a frame.
StreamRead == pc = "streaming" /\ nframes' = nframes + 1
AuthRead == pc = "auth_wait" /\ (nframes' = nframes + 1 \/ pc' = "streaming")

Range(seq) == { seq[i] : i \in 1..Len(seq) }
Count(seq, x) == Cardinality({ i \in 1..Len(seq) : seq[i] = x })

EmitsDepthReceived ==
    /\ Len(events') = Len(events) + 1
    /\ events'[Len(events')] = "DepthReceived"

\* C1: a parsed trade frame is appended to the trade buffer and nothing else
\* touches the buffer, until the next parsed depth frame emits one
\* DepthReceived event that carries the whole buffer in arrival order and
\* leaves the buffer empty.
C1_TradesDrainedOnce ==
    [][ /\ (StreamRead /\ last_frame' \in DepthFrames) =>
              /\ EmitsDepthReceived
              /\ last_event'.kind = "DepthReceived"
              /\ last_event'.trades = trades_buffer
              /\ trades_buffer' = << >>
        /\ (StreamRead /\ last_frame' \in TradeFrames) =>
              /\ Len(trades_buffer') = Len(trades_buffer) + 1
              /\ SubSeq(trades_buffer', 1, Len(trades_buffer)) = trades_buffer
              /\ trades_buffer'[Len(trades_buffer')].time = last_frame'.body.time
              /\ events' = events
        /\ ~(StreamRead /\ last_frame' \in (DepthFrames \cup TradeFrames)) =>
              /\ trades_buffer' = trades_buffer
              /\ ~EmitsDepthReceived
      ]_vars

C1_Witness ==
    /\ last_event.kind = "DepthReceived"
    /\ Len(last_event.trades) = 2
    /\ last_event.trades[1].time = 2
    /\ last_event.trades[2].time = 1
    /\ trades_buffer = << >>
    /\ last_frame \in DepthFrames

BackoffSequence == <<1, 2, 4, 8, 16, 32, 60, 60, 60, 60, 60, 60>>

C3_BackoffSequence ==
    /\ Len(sleeps) = attempt - 1
    /\ \A i \in 1..Len(sleeps) :
          /\ sleeps[i] <= 60
          /\ i <= Len(BackoffSequence) => sleeps[i] = BackoffSequence[i]
          /\ i = 1 => sleeps[i] = 1
          /\ i > 1 => sleeps[i] = Min(2 * sleeps[i - 1], 60)

C3_Witness == Len(sleeps) >= 9 /\ sleeps[7] = 60 /\ sleeps[9] = 60

\* The reason text each way of ending an attempt gives.
ErrorText ==
    CASE ended.cause = "connect_error" -> "connect failed"
      [] ended.cause = "send_error" -> "send failed"
      [] ended.cause = "read_error" -> "read error"
      [] ended.cause = "parse_error" -> "invalid message"
      [] ended.cause = "auth_rejected" ->
            IF last_frame.error = "absent" THEN "Auth failed" ELSE last_frame.error
      [] OTHER -> "-"

AttemptOver == pc \in {"sleeping", "done"}

OneDisconnectedAtEnd ==
    /\ AttemptOver =>
          /\ Count(events, "Disconnected") = 1
          /\ events[Len(events)] = "Disconnected"
          /\ last_event.kind = "Disconnected"
    /\ ~AttemptOver => Count(events, "Disconnected") = 0

\* C4 as stated: one Disconnected event per attempt, "Connection closed"
\* whenever the attempt ended by a close frame or the end of the socket
\* stream, the error text otherwise.
C4_Original ==
    /\ OneDisconnectedAtEnd
    /\ AttemptOver =>
          last_event.reason.text =
              IF ended.cause \in {"close_frame", "stream_end"}
              THEN "Connection closed" ELSE ErrorText

\* C4 (amended): every attempt ends with exactly one Disconnected event,
\* emitted before the backoff sleep; the reason is "Connection closed" when
\* the attempt ended in Streaming by a close frame or the end of the socket
\* stream, "No auth response received" when the socket stream ended while
\* waiting for the auth response, and the text of the error otherwise.
C4_DisconnectedReason ==
    /\ OneDisconnectedAtEnd
    /\ AttemptOver =>
          last_event.reason.text =
              IF ended.phase = "Streaming" /\ ended.cause \in {"close_frame", "stream_end"}
              THEN "Connection closed"
              ELSE IF ended.cause = "stream_end"
                   THEN "No auth response received" ELSE ErrorText

C4_Witness ==
    /\ pc = "sleeping"
    /\ ended = [phase |-> "Authenticating", cause |-> "stream_end"]
    /\ last_event.reason.text = "No auth response received"
    /\ events = <<"Connected", "Disconnected">>

\* C5 as stated: an attempt has emitted Connected exactly when it has
\* entered Streaming (auth accepted and subscribe sent).
C5_Original ==
    Count(events, "Connected") = IF "subscribe" \in Range(sent) THEN 1 ELSE 0

\* C5 (amended): Connected is emitted once per attempt, as soon as the
\* transport connection is established and before the auth request is
\* sent: every attempt that got past Connecting, also one that ends in
\* Authenticating, has emitted exactly one Connected event as its first
\* event; an attempt that is in or failed in Connecting has emitted none.
C5_ConnectedOnConnect ==
    IF pc = "connect" \/ ended.phase = "Connecting"
    THEN Count(events, "Connected") = 0
    ELSE /\ Count(events, "Connected") = 1
         /\ events[1] = "Connected"
         /\ "subscribe" \in Range(sent) => "auth" \in Range(sent)

C5_Witness ==
    /\ AttemptOver
    /\ ended = [phase |-> "Authenticating", cause |-> "auth_rejected"]
    /\ events = <<"Connected", "Disconnected">>
    /\ sent = <<"auth">>

AuthErrorText(f) == IF f.error = "absent" THEN "Auth failed" ELSE f.error

\* C6: subscribe is sent only on reading an auth_response with success=true;
\* an auth_response with any other success ends the attempt with nothing
\* sent, and the Disconnected event then carries the server's error text,
\* or "Auth failed" when there is none.
C6_SubscribeAfterAuth ==
    [][ /\ ("subscribe" \notin Range(sent) /\ "subscribe" \in Range(sent')) =>
              /\ AuthRead
              /\ last_frame' \in AuthResponseFrames
              /\ last_frame'.success = "true"
        /\ (AuthRead /\ last_frame' \in AuthResponseFrames
              /\ last_frame'.success # "true") =>
              /\ pc' = "returned"
              /\ sent' = sent
              /\ ended'.cause = "auth_rejected"
              /\ ~result'.ok
              /\ result'.err.text = AuthErrorText(last_frame')
        /\ (pc = "returned" /\ pc' # "returned" /\ ended.cause = "auth_rejected") =>
              /\ last_event'.kind = "Disconnected"
              /\ last_event'.reason.text = AuthErrorText(last_frame)
              /\ sent' = <<"auth">>
      ]_vars

C6_Witness ==
    /\ AttemptOver
    /\ ended.cause = "auth_rejected"
    /\ last_frame.success = "absent"
    /\ last_frame.error = "absent"
    /\ last_event.reason.text = "Auth failed"
    /\ "subscribe" \notin Range(sent)

\* C7: with auto_reconnect disabled there is one attempt only: after its
\* Disconnected event the task is done, it never sleeps or connects again.
C7_SingleAttempt ==
    ~config.auto_reconnect =>
        /\ attempt = 1
        /\ sleeps = << >>
        /\ pc # "sleeping"
        /\ pc = "done" => last_event.kind = "Disconnected"

C7_Witness ==
    /\ ~config.auto_reconnect
    /\ pc = "done"
    /\ events[Len(events)] = "Disconnected"

\* C8: once a send on the output channel has failed, the task reads no
\* further frame and starts no further connection attempt.
C8_StopsAfterFailedSend ==
    [][ send_failed =>
          /\ ~StreamRead
          /\ ~AuthRead
          /\ attempt' = attempt
      ]_vars

\* C9: an attempt does not stay in Connecting or Authenticating for longer
\* than the configured timeout.
C9_NoHang ==
    pc \in {"connect", "auth_wait"} => waited <= config.timeout_secs

DecodeFails(f) ==
    /\ f.msg = "Text"
    /\ \/ ~f.wellformed
       \/ f.type = ""
       \/ f.success = "malformed"
       \/ f.type = "trade" /\ f.body.shape # "trade"
       \/ f.type = "depth" /\ f.body.shape # "depth"

\* C10: a text frame of the main loop that fails decoding changes nothing:
\* the attempt stays in Streaming, depth cache and trade buffer keep their
\* content, no event is emitted and nothing is sent.
C10_BadFrameDropped ==
    [][ (StreamRead /\ DecodeFails(last_frame')) =>
          /\ pc' = "streaming"
          /\ UNCHANGED <<orderbook, trades_buffer, events, last_event, sent,
                         result, ended, send_failed>>
      ]_vars

C10_Witness ==
    /\ pc = "streaming"
    /\ last_frame \in BadBodyFrames
    /\ last_frame.type = "trade"
    /\ Len(trades_buffer) = 1
    /\ orderbook.last_update_id > 0
    /\ events = <<"Connected">>

\* ------------------------------------------------ the output channel
Rank(kind) ==
    CASE kind = "Connected" -> 0
      [] kind = "DepthReceived" -> 1
      [] kind = "Disconnected" -> 2
      [] OTHER -> 3

\* t1 was triggered before t2: an earlier attempt, or in one attempt
\* Connected before every DepthReceived before Disconnected, and of two
\* DepthReceived the one of the earlier frame.
Before(t1, t2) ==
    \/ t1.attempt < t2.attempt
    \/ /\ t1.attempt = t2.attempt
       /\ \/ Rank(t1.kind) < Rank(t2.kind)
          \/ Rank(t1.kind) = Rank(t2.kind) /\ t1.frame < t2.frame

\* What the consumer took last, followed by what it will take next.
Observed == (IF taken = NoTag THEN << >> ELSE <<taken>>) \o chan

C12_BoundedChannel ==
    [][ /\ Len(chan') <= Capacity
        /\ (Len(chan') = Capacity /\ ~receiver_dropped') => pc' = "blocked"
        /\ pc = "blocked" =>
              /\ UNCHANGED <<attempt, orderbook, trades_buffer, events,
                             last_event, sent, nframes, last_frame, result,
                             ended, sleeps, reconnect_delay>>
              /\ pc' # "blocked" => Len(chan) < Capacity \/ receiver_dropped
        /\ (Len(events') = Len(events) + 1 /\ ~receiver_dropped) =>
              /\ events' = Append(events, last_event'.kind)
              /\ chan' = Append(chan, Tag(last_event', attempt, nframes', depth_arc'))
        /\ (Len(events') # Len(events) + 1 /\ chan' # chan) =>
              /\ chan # << >>
              /\ chan' = Tail(chan)
              /\ taken' = Head(chan)
      ]_vars

C12_Witness ==
    /\ pc = "blocked"
    /\ Len(chan) = Capacity
    /\ ~receiver_dropped
    /\ last_event.kind = "DepthReceived"
    /\ chan[Len(chan)].kind = "DepthReceived"
    /\ nframes = 1

\* C13: when a connection attempt starts, the first one and every
\* reconnect, the depth cache holds no price level.
C13_CacheEmptyAtAttemptStart ==
    pc = "connect" => orderbook.depth = EmptyDepth

\* C14: when the first frame read after the subscribe request is a valid
\* depth frame (of a time after 0), the event sent is DepthReceived with
\* that frame's time, exactly that frame's bid and ask levels and no
\* trades.
C14_FirstDepthFrame ==
    [][ (StreamRead /\ nframes = 0 /\ last_frame' \in DepthFrames
            /\ last_frame'.body.time > 0) =>
           last_event' = DepthReceived(last_frame'.body.time,
                                       [bids |-> Levels(last_frame'.body.bids),
                                        asks |-> Levels(last_frame'.body.asks)],
                                       << >>)
      ]_vars

\* C15: the book of a DepthReceived event never changes after the event
\* was sent: whatever the task applies to its cache later, the allocation
\* that a queued event, or the event in the consumer's hand, points to
\* still holds the book it held at emission.
C15_SnapshotImmutable ==
    \A i \in 1..Len(Observed) :
        Observed[i].kind = "DepthReceived" =>
            heap[Observed[i].cell] = Observed[i].depth

C15_Witness ==
    /\ taken.kind = "DepthReceived"
    /\ Len(chan) >= 1
    /\ chan[Len(chan)].kind = "DepthReceived"
    /\ chan[Len(chan)].cell # taken.cell
    /\ chan[Len(chan)].depth # taken.depth
    /\ depth_arc = chan[Len(chan)].cell

\* ------------------------------------------ the configuration modal
\* C16: validate reports the first failing field in the order address,
\* key, secret: after Save the status is the address error whenever the
\* address is empty, the key error when the address is set and the key
\* empty, the secret error only when address and key are set and the
\* secret empty, and the configuration is handed out exactly when all
\* three are set.
C16_ValidateOrder ==
    modal.message = "Save" =>
        LET cfg == modal.config
            failed(text) == /\ modal.test_status = TestStatus("Failed", text)
                            /\ modal.action = Action("None", NoConfig)
        IN /\ cfg.server_addr = "" => failed("Server address is required")
           /\ (cfg.server_addr # "" /\ cfg.api_key = "") =>
                  failed("API key is required")
           /\ (cfg.server_addr # "" /\ cfg.api_key # "" /\ cfg.api_secret = "") =>
                  failed("API secret is required")
           /\ (modal.action = Action("SaveConfig", cfg)) <=>
                  (cfg.server_addr # "" /\ cfg.api_key # "" /\ cfg.api_secret # "")

C16_Witness ==
    /\ modal.message = "Save"
    /\ modal.config.server_addr = ""
    /\ modal.config.api_key = ""
    /\ modal.config.api_secret = ""
    /\ modal.test_status = TestStatus("Failed", "Server address is required")

\* C17: the serialized form of a configuration has no api_secret field
\* and is the same whatever the secret is, the secret's text is not in
\* it, and the persisted Mt5Connection record has no secret field.
C17_SecretNotSerialized ==
    /\ "api_secret" \notin Mt5Connection_fields
    /\ modal.serialized # NoSerialized =>
          LET out == modal.serialized.output IN
          /\ "api_secret" \notin DOMAIN out
          /\ \A f \in DOMAIN out \ {"use_tls", "timeout_secs", "auto_reconnect"} :
                 out[f] \notin Secrets \ {""}
          /\ \A secret \in Secrets :
                 serialize([modal.serialized.input EXCEPT !.api_secret = secret]) = out

C17_Witness ==
    /\ modal.serialized # NoSerialized
    /\ modal.serialized.input.api_secret = "test_secret"
    /\ modal.serialized.output.api_key = "test_key"

\* ------------------------------------------------- the one-shot calls
CallReturned == call.pc = "returned"

DataShape == IF call.fn = "fetch_ticksize" THEN "symbol" ELSE "kline"

\* The reply to the auth request was an auth_response with success = true.
CallAuthenticated ==
    /\ call.auth_reply.msg = "Text"
    /\ from_str_ServerMessage(call.auth_reply).ok
    /\ from_str_ServerMessage(call.auth_reply).msg_type = "auth_response"
    /\ AuthAccepted(from_str_ServerMessage(call.auth_reply))

\* C18: a one-shot call whose data response is a JSON text frame that
\* fails the schema of its response struct returns a parse error, not Ok.
C18_SchemaInvalidFails ==
    (/\ CallReturned
     /\ CallAuthenticated
     /\ call.data_reply.msg = "Text"
     /\ call.data_reply.wellformed
     /\ ~from_str_Response(call.data_reply, DataShape).ok) =>
        /\ ~call.result.ok
        /\ call.result.err.variant = "ParseError"

\* C19: fetch_ticksize on a symbol list with partial entries returns Ok
\* with a descriptor for every entry that is well-formed.
C19_MalformedEntriesSkipped ==
    (/\ CallReturned
     /\ CallAuthenticated
     /\ call.fn = "fetch_ticksize"
     /\ call.data_reply.msg = "Text"
     /\ call.data_reply.wellformed
     /\ call.data_reply.body.shape = "list") =>
        /\ call.result.ok
        /\ \A i \in 1..Len(call.data_reply.body.data) :
              LET e == call.data_reply.body.data[i] IN
              e.shape = "symbol" =>
                  /\ e.symbol \in DOMAIN call.result.value
                  /\ call.result.value[e.symbol].ticker = e.symbol

\* C20: the data request is sent only after an auth_response with
\* success = true was read, and a call that read anything else as the
\* reply to its auth request returns an error without a data request.
C20_DataRequestAfterAuth ==
    /\ DataRequest(call.fn) \in Range(call.sent) => CallAuthenticated
    /\ (CallReturned /\ call.auth_reply # NoFrame /\ ~CallAuthenticated) =>
          /\ ~call.result.ok
          /\ DataRequest(call.fn) \notin Range(call.sent)

\* fetch_klines returned what it collected from a response that decodes.
KlinesReturned ==
    /\ CallReturned
    /\ call.fn = "fetch_klines"
    /\ call.data_reply.msg = "Text"
    /\ from_str_Response(call.data_reply, "kline").ok

\* C21 as stated: every candle of the response is returned, in order, with
\* buy volume equal to sell volume and their sum (in halves: twice the
\* total) equal to the reported total.
C21_Original ==
    KlinesReturned =>
        LET data == call.data_reply.body.data IN
        /\ call.result.ok
        /\ Len(call.result.value) = Len(data)
        /\ \A i \in 1..Len(data) :
              LET v == call.result.value[i].volume IN
              /\ call.result.value[i].time = data[i].time
              /\ v[1] = v[2]
              /\ v[1] + v[2] = 2 * data[i].volume

\* C21 (amended): every candle of a response that decodes is returned, in
\* order, with buy volume equal to sell volume, each half the reported
\* total rounded to f32; their sum is the reported total rounded to f32,
\* which is the reported total itself whenever half of it has no more
\* than 24 significant bits.
C21_HalfVolume ==
    KlinesReturned =>
        LET data == call.data_reply.body.data IN
        /\ call.result.ok
        /\ Len(call.result.value) = Len(data)
        /\ \A i \in 1..Len(data) :
              LET v == call.result.value[i].volume IN
              /\ call.result.value[i].time = data[i].time
              /\ v[1] = v[2]
              /\ v[1] + v[2] = as_f32(2 * data[i].volume)
              /\ data[i].volume < 16777216 => v[1] + v[2] = 2 * data[i].volume

C21_Witness ==
    /\ KlinesReturned
    /\ Len(call.result.value) = 2
    /\ call.data_reply.body.data[1].volume = 10
    /\ call.result.value[1].volume = <<10, 10>>
    /\ call.data_reply.body.data[2].volume = 16777217
    /\ call.result.value[2].volume = <<16777216, 16777216>>

\* C22: the URL a connection test connects to is the scheme, "://", the
\* server address unchanged and "/client", the scheme being "wss" when
\* use_tls is set and "ws" when it is not.
C22_WsUrl ==
    (modal.tested # NoTest /\ modal.tested.url # "") =>
        LET cfg == modal.tested.config IN
        /\ cfg.use_tls =>
              modal.tested.url = "wss://" \o cfg.server_addr \o "/client"
        /\ ~cfg.use_tls =>
              modal.tested.url = "ws://" \o cfg.server_addr \o "/client"

C22_Witness ==
    /\ modal.tested # NoTest
    /\ modal.tested.config.use_tls
    /\ modal.tested.config.server_addr = "192.168.1.100:9876"
    /\ modal.tested.url = "wss://192.168.1.100:9876/client"

DelayOfAttempt(n) == IF n <= 6 THEN 2 ^ (n - 1) ELSE 60

C24_DelayScopedToInvocation ==
    [][/\ reconnect_delay = DelayOfAttempt(attempt)
       /\ reconnect_delay' = DelayOfAttempt(attempt')
       /\ reconnect_delay' >= reconnect_delay
       /\ reconnect_delay' # reconnect_delay =>
             /\ pc = "sleeping"
             /\ pc' = "connect"
             /\ attempt' = attempt + 1
             /\ sleeps' = Append(sleeps, reconnect_delay)]_vars

\* The third attempt begins after earlier attempts streamed depth
\* snapshots.
C24_Witness ==
    /\ attempt = 3
    /\ pc = "connect"
    /\ reconnect_delay = 4
    /\ sleeps = <<1, 2>>
    /\ orderbook.last_update_id = 2

\* C25: with auto_reconnect set and the consumer attached, the task never
\* ends, and each return of connect_and_stream, whatever its result, leads
\* to the Disconnected event reaching the channel, the backoff sleep and
\* the start of the next attempt (for the attempts that are observed).
C25_AlwaysRetries ==
    /\ [](config.auto_reconnect => pc # "done")
    /\ \A n \in 1..(MaxLagAttempts - 1) :
          (config.auto_reconnect /\ attempt = n /\ pc = "returned")
              ~> (/\ attempt = n + 1
                  /\ pc = "connect"
                  /\ sleeps[n] = DelayOfAttempt(n)
                  /\ last_event.kind = "Disconnected")

\* The consumer took the Disconnected event of the first attempt, which
\* failed, and the second attempt has begun.
C25_Witness ==
    /\ config.auto_reconnect
    /\ attempt = 2
    /\ pc = "connect"
    /\ sleeps = <<1>>
    /\ taken.kind = "Disconnected"
    /\ taken.attempt = 1
    /\ last_event.kind = "Disconnected"
    /\ last_event.reason = to_string(WebsocketError("connect failed"))

\* C26: a DepthReceived event is emitted only by the read loop of the
\* Streaming phase: the attempt has emitted its Connected event first and
\* no Disconnected event since, its auth request was accepted and its
\* subscribe request sent; the events of an attempt are Connected, then
\* DepthReceived events, then Disconnected.
C26_DepthOnlyWhileStreaming ==
    [][ /\ EmitsDepthReceived =>
              /\ pc = "streaming"
              /\ pc' = "streaming"
              /\ attempt' = attempt
              /\ Len(sent) >= 2
              /\ sent[1] = "auth"
              /\ sent[2] = "subscribe"
              /\ events # << >>
              /\ events[1] = "Connected"
              /\ "Disconnected" \notin Range(events)
              /\ last_frame' \in DepthFrames
        /\ \A i \in 1..Len(events') :
              events'[i] = "DepthReceived" =>
                  /\ i > 1
                  /\ events'[1] = "Connected"
                  /\ \A j \in 2..i : events'[j] = "DepthReceived"
      ]_vars

\* The second attempt streams a depth snapshot after its own Connected
\* event; the first attempt ended with its Disconnected event.
C26_Witness ==
    /\ attempt = 2
    /\ pc = "streaming"
    /\ events = <<"Connected", "DepthReceived", "DepthReceived">>
    /\ sent = <<"auth", "subscribe">>
    /\ last_event.kind = "DepthReceived"
    /\ sleeps = <<1>>

\* C27: the trade buffer is not touched between the end of an attempt and
\* the read loop of the next one, no step but the emission of a
\* DepthReceived event removes a trade from it, and that event carries
\* the whole buffer: trades left over by an attempt are the first trades
\* of the first DepthReceived event emitted afterwards.
C27_TradesSurviveReconnect ==
    [][ /\ pc \in {"returned", "sleeping", "connect", "connected", "auth_wait"} =>
              trades_buffer' = trades_buffer
        /\ ~EmitsDepthReceived =>
              /\ Len(trades_buffer') >= Len(trades_buffer)
              /\ SubSeq(trades_buffer', 1, Len(trades_buffer)) = trades_buffer
        /\ EmitsDepthReceived =>
              /\ last_event'.kind = "DepthReceived"
              /\ last_event'.trades = trades_buffer
        /\ (attempt' = attempt + 1) => trades_buffer' = trades_buffer
      ]_vars

\* The first frame the second attempt reads after subscribing is a depth
\* frame, and its event carries a trade: one the first attempt buffered.
C27_Witness ==
    /\ attempt = 2
    /\ pc = "streaming"
    /\ nframes = 1
    /\ last_frame \in DepthFrames
    /\ events = <<"Connected", "DepthReceived">>
    /\ last_event.kind = "DepthReceived"
    /\ Len(last_event.trades) = 2
    /\ trades_buffer = << >>

\* A step of update(Message::Save) that changes the modal.
SaveStep ==
    /\ modal' # modal
    /\ modal'.message = "Save"
    /\ modal'.serialized = modal.serialized

\* C28: update returns SaveConfig only for Save and only with the edited
\* configuration when it passes validate(); a Save on a configuration with
\* an empty address, key or secret returns None, sets the status to Failed
\* with the message of validate(), and no Save changes the edited
\* configuration.
C28_SaveOnlyValid ==
    [][ /\ modal'.action.kind = "SaveConfig" =>
              /\ modal'.message = "Save"
              /\ modal'.action.config = modal'.config
              /\ modal'.config.server_addr # ""
              /\ modal'.config.api_key # ""
              /\ modal'.config.api_secret # ""
              /\ validate(modal'.action.config).ok
        /\ SaveStep =>
              /\ modal'.config = modal.config
              /\ IF \/ modal.config.server_addr = ""
                    \/ modal.config.api_key = ""
                    \/ modal.config.api_secret = ""
                 THEN /\ modal'.action = Action("None", NoConfig)
                      /\ modal'.test_status =
                            TestStatus("Failed", validate(modal.config).err)
                      /\ validate(modal.config).err \in
                            {"Server address is required", "API key is required",
                             "API secret is required"}
                 ELSE /\ modal'.action = Action("SaveConfig", modal.config)
                      /\ modal'.test_status = modal.test_status
      ]_vars

\* A Save with address and key filled in and the secret left empty.
C28_Witness ==
    /\ modal.message = "Save"
    /\ modal.action = Action("None", NoConfig)
    /\ modal.config.server_addr = "192.168.1.100:9876"
    /\ modal.config.api_key = "test_key"
    /\ modal.config.api_secret = ""
    /\ modal.config.use_tls
    /\ modal.test_status = TestStatus("Failed", "API secret is required")

\* C29: whenever the test status is Success, the configuration the result
\* is about equals the edited configuration in server address, API key,
\* API secret and TLS flag.
C29_SuccessIsOfEditedConfig ==
    modal.test_status.kind = "Success" =>
        /\ modal.tested # NoTest
        /\ modal.tested.config.server_addr = modal.config.server_addr
        /\ modal.tested.config.api_key = modal.config.api_key
        /\ modal.tested.config.api_secret = modal.config.api_secret
        /\ modal.tested.config.use_tls = modal.config.use_tls

====
